---------------------------- MODULE Spec2Model ----------------------------
(***************************************************************************)
(* A model of converter.py, the batch IGC to KMZ converter:                *)
(*   - parse_igc: the line-by-line decoder of an IGC tracklog;             *)
(*   - convert_file, the flat batch of main and the grouped batch of       *)
(*     convert_folder;                                                     *)
(*   - merge_kmz_folder: the merge of existing archives into one document. *)
(* Text is a sequence of one-character strings, so that slicing, trimming  *)
(* and concatenation are computed as the code computes them.  A latitude   *)
(* or longitude is an integer number of thousandths of an arc minute       *)
(* (degrees * 60000 + minutes field), the exact value of which the code's  *)
(* float deg + (min / 1000.0) / 60.0 is the image.                         *)
(***************************************************************************)
EXTENDS Integers, Sequences, FiniteSets, TLC

VARIABLES
    \* parse_igc
    lines, idx, pilot, date, points,
    \* main / convert_folder / convert_file
    mode, files, groups, group_names, color_map, outdirs, disk0, disk, pc, gi,
    fi, count, total, success, errors, cf, results, attempts, report,
    \* merge_kmz_folder
    mgroups, mpc, mgi, mki, doc, prov, total_files, merged_out, mreport

parseVars == <<lines, idx, pilot, date, points>>
batchVars == <<mode, files, groups, group_names, color_map, outdirs, disk0,
               disk, pc, gi, fi, count, total, success, errors, cf, results,
               attempts, report>>
mergeVars == <<mgroups, mpc, mgi, mki, doc, prov, total_files, merged_out,
               mreport>>
vars == <<parseVars, batchVars, mergeVars>>

\* The inputs of a batch run, the position of its loops, and its tally.
batchInput == <<mode, files, groups, disk0>>
loopVars == <<group_names, color_map, pc, gi, fi, count, total, attempts>>
tallyVars == <<success, errors, results, report>>

\* Python's None, where the value is otherwise a sequence (pilot, date) and
\* where it is otherwise a string (an error message).
None == <<"None">>
NoneStr == "None"

(***************************************************************************)
(* Bounds of the model.                                                    *)
(***************************************************************************)
MaxLines == 3       \* lines of the file parse_igc scans
MaxFiles == 3       \* input files of one batch run
MaxArchives == 3    \* archives under the folder merge_kmz_folder merges

(***************************************************************************)
(* Text helpers: str.strip, str.startswith, str.upper, "in", str.split.    *)
(***************************************************************************)
Whitespace == {" ", "\t", "\n", "\r"}

Digits == {"0", "1", "2", "3", "4", "5", "6", "7", "8", "9"}

DigitVal(c) ==
    CASE c = "0" -> 0 [] c = "1" -> 1 [] c = "2" -> 2 [] c = "3" -> 3
      [] c = "4" -> 4 [] c = "5" -> 5 [] c = "6" -> 6 [] c = "7" -> 7
      [] c = "8" -> 8 [] c = "9" -> 9

RECURSIVE LStrip(_)
LStrip(s) ==
    IF s # <<>> /\ Head(s) \in Whitespace THEN LStrip(Tail(s)) ELSE s

RECURSIVE RStrip(_)
RStrip(s) ==
    IF s # <<>> /\ s[Len(s)] \in Whitespace
    THEN RStrip(SubSeq(s, 1, Len(s) - 1))
    ELSE s

Strip(s) == RStrip(LStrip(s))

StartsWith(s, p) == Len(s) >= Len(p) /\ SubSeq(s, 1, Len(p)) = p

UpperChar(c) ==
    CASE c = "h" -> "H" [] c = "p" -> "P" [] c = "l" -> "L" [] c = "t" -> "T"
      [] c = "f" -> "F" [] c = "d" -> "D" [] c = "e" -> "E" [] c = "a" -> "A"
      [] c = "b" -> "B" [] c = "o" -> "O" [] c = "s" -> "S" [] c = "n" -> "N"
      [] c = "w" -> "W" [] c = "x" -> "X"
      [] OTHER -> c

Upper(s) == [i \in 1..Len(s) |-> UpperChar(s[i])]

\* p in s
Contains(s, p) ==
    \E i \in 1..(Len(s) - Len(p) + 1) : SubSeq(s, i, i + Len(p) - 1) = p

\* s.split(c, 1)[1], for s that holds c
AfterFirst(s, c) ==
    LET i == CHOOSE k \in 1..Len(s) : s[k] = c /\ \A j \in 1..(k - 1) : s[j] # c
    IN  SubSeq(s, i + 1, Len(s))

\* s[a:b] of Python (0-based, b exclusive), for 0 <= a <= b
Slice(s, a, b) ==
    SubSeq(s, a + 1, IF b > Len(s) THEN Len(s) ELSE b)

(***************************************************************************)
(* int(s): optional surrounding whitespace, an optional sign, then digits  *)
(* with single underscores allowed between them.                           *)
(***************************************************************************)
IntBodyOk(b) ==
    /\ b # <<>>
    /\ b[1] \in Digits
    /\ b[Len(b)] \in Digits
    /\ \A i \in 1..Len(b) : b[i] \in Digits \cup {"_"}
    /\ \A i \in 1..(Len(b) - 1) : ~(b[i] = "_" /\ b[i + 1] = "_")

RECURSIVE DigitsValue(_, _)
DigitsValue(b, acc) ==
    IF b = <<>> THEN acc
    ELSE IF Head(b) = "_" THEN DigitsValue(Tail(b), acc)
    ELSE DigitsValue(Tail(b), acc * 10 + DigitVal(Head(b)))

IntParses(s) ==
    LET t == Strip(s)
        b == IF t # <<>> /\ Head(t) \in {"+", "-"} THEN Tail(t) ELSE t
    IN  IntBodyOk(b)

\* the value of int(s), for s that parses
IntOf(s) ==
    LET t == Strip(s)
        neg == t # <<>> /\ Head(t) = "-"
        b == IF t # <<>> /\ Head(t) \in {"+", "-"} THEN Tail(t) ELSE t
        v == DigitsValue(b, 0)
    IN  IF neg THEN 0 - v ELSE v

(***************************************************************************)
(* parse_igc                                                               *)
(***************************************************************************)
\* datetime.strptime(d6, "%d%m%y").strftime("%Y-%m-%d") on six digits: the
\* date as <<year, month, day>>, or None where strptime raises ValueError.
IsLeap(y) == y % 4 = 0 /\ (y % 100 # 0 \/ y % 400 = 0)

DaysIn(m, y) ==
    IF m = 2 THEN (IF IsLeap(y) THEN 29 ELSE 28)
    ELSE IF m \in {4, 6, 9, 11} THEN 30 ELSE 31

StrpDate(d6) ==
    LET d == DigitVal(d6[1]) * 10 + DigitVal(d6[2])
        m == DigitVal(d6[3]) * 10 + DigitVal(d6[4])
        yy == DigitVal(d6[5]) * 10 + DigitVal(d6[6])
        y == IF yy >= 69 THEN 1900 + yy ELSE 2000 + yy
    IN  IF m \in 1..12 /\ d >= 1 /\ d <= DaysIn(m, y) THEN <<y, m, d>> ELSE None

IsDigit(c) == c \in Digits

\* The pilot after one stripped line (lines 24-28).
PilotAfter(line, old) ==
    IF StartsWith(line, <<"H">>)
       /\ Contains(Upper(line), <<"P", "L", "T">>) /\ Contains(line, <<":">>)
    THEN LET name == Strip(AfterFirst(line, ":"))
         IN  IF name = <<>> THEN None ELSE name
    ELSE old

\* The date after one stripped line (lines 24, 30-36).
DateAfter(line, old) ==
    IF StartsWith(line, <<"H">>)
       /\ (StartsWith(Upper(line), <<"H", "F", "D", "T", "E">>)
           \/ StartsWith(Upper(line), <<"H", "P", "D", "T", "E">>))
    THEN LET digits == SelectSeq(Slice(line, 5, Len(line)), IsDigit)
         IN  IF Len(digits) >= 6
             THEN LET d == StrpDate(SubSeq(digits, 1, 6))
                  IN  IF d = None THEN old ELSE d
             ELSE old
    ELSE old

\* lat or lon of lines 47-58: the degrees and minutes fields and the
\* hemisphere letter that negates.
Coord(degField, minField, hemi, negLetter) ==
    LET v == IntOf(degField) * 60000 + IntOf(minField)
    IN  IF hemi = negLetter THEN 0 - v ELSE v

\* FixesOf without the test of the validity flag (lines 41-43).
FixesOf_AnyValidity(line) ==
    IF StartsWith(line, <<"B">>) /\ Len(line) >= 35
       /\ IntParses(Slice(line, 7, 9)) /\ IntParses(Slice(line, 9, 14))
       /\ IntParses(Slice(line, 15, 18)) /\ IntParses(Slice(line, 18, 23))
       /\ IntParses(Slice(line, 30, 35)) /\ IntParses(Slice(line, 25, 30))
    THEN LET gps_alt == IntOf(Slice(line, 30, 35))
         IN  << <<Coord(Slice(line, 7, 9), Slice(line, 9, 14), line[15], "S"),
                  Coord(Slice(line, 15, 18), Slice(line, 18, 23), line[24], "W"),
                  IF gps_alt > 0 THEN gps_alt ELSE IntOf(Slice(line, 25, 30))>> >>
    ELSE <<>>

\* The fixes one stripped line yields (lines 40-67): <<fix>> or <<>>.
FixesOf(line) ==
    IF StartsWith(line, <<"B">>) /\ Len(line) >= 35
    THEN IF line[25] # "A" THEN <<>>
         ELSE IF /\ IntParses(Slice(line, 7, 9))
                 /\ IntParses(Slice(line, 9, 14))
                 /\ IntParses(Slice(line, 15, 18))
                 /\ IntParses(Slice(line, 18, 23))
                 /\ IntParses(Slice(line, 30, 35))
                 /\ IntParses(Slice(line, 25, 30))
              THEN LET lat == Coord(Slice(line, 7, 9), Slice(line, 9, 14),
                                    line[15], "S")
                       lon == Coord(Slice(line, 15, 18), Slice(line, 18, 23),
                                    line[24], "W")
                       gps_alt == IntOf(Slice(line, 30, 35))
                       press_alt == IntOf(Slice(line, 25, 30))
                       alt == IF gps_alt > 0 THEN gps_alt ELSE press_alt
                   IN  << <<lat, lon, alt>> >>
              ELSE <<>>
    ELSE <<>>

\* One iteration of the loop over the file's lines (lines 20-67).
ScanLine(acc, raw) ==
    LET line == Strip(raw)
    IN  [pilot |-> PilotAfter(line, acc.pilot),
         date |-> DateAfter(line, acc.date),
         points |-> acc.points \o FixesOf(line)]

RECURSIVE ScanAll(_, _)
ScanAll(acc, ls) ==
    IF ls = <<>> THEN acc ELSE ScanAll(ScanLine(acc, Head(ls)), Tail(ls))

\* parse_igc(filepath) on a readable file holding the lines ls.
parse_igc(ls) == ScanAll([pilot |-> None, date |-> None, points |-> <<>>], ls)


(***************************************************************************)
(* Input lines of the tracklogs the model scans.                           *)
(***************************************************************************)
\* A 35-character B record: B, HHMMSS, DDMMmmm, N/S, DDDMMmmm, E/W, the
\* validity flag, pressure altitude, GPS altitude (line 39).
BRec(latd, latm, ns, lond, lonm, ew, v, pa, ga) ==
    <<"B", "1", "2", "0", "0", "0", "0">> \o latd \o latm \o <<ns>>
        \o lond \o lonm \o <<ew>> \o <<v>> \o pa \o ga

Z5 == <<"0", "0", "0", "0", "0">>
Alt1000 == <<"0", "1", "0", "0", "0">>
Alt120 == <<"0", "0", "1", "2", "0">>
AltNeg50 == <<"-", "0", "0", "5", "0">>
Min30 == <<"3", "0", "0", "0", "0">>
Min99 == <<"9", "9", "9", "9", "9">>

L_PilotAl == <<"H", "F", "P", "L", "T", ":", "A", "l">>
L_PilotBo == <<"H", "x", "p", "l", "t", ":", " ", "B", "o", " ">>
L_PilotEmpty == <<"H", "F", "P", "L", "T", ":", " ">>
L_DateOk == <<"H", "F", "D", "T", "E", "0", "1", "0", "2", "0", "3">>
L_DateBad == <<"H", "F", "D", "T", "E", "3", "2", "1", "3", "0", "1">>
L_DateColon ==
    <<"H", "p", "d", "t", "e", "D", ":", "3", "1", "0", "5", "9", "9", ",", "7">>
L_Other == <<"A", "X", "X">>
B_Good == BRec(<<"4", "5">>, Z5, "N", <<"0", "0", "7">>, Z5, "E", "A",
               Alt120, Alt1000)
B_SW == BRec(<<"4", "5">>, Min30, "S", <<"0", "0", "7">>, Min30, "W", "A",
             AltNeg50, Z5)
B_Range == BRec(<<"9", "9">>, Min99, "N", <<"9", "9", "9">>, Min99, "E", "A",
                Alt120, Alt1000)
B_ZeroS == BRec(<<"0", "0">>, Z5, "S", <<"0", "0", "0">>, Z5, "W", "A",
                Alt120, Alt1000)
B_Void == BRec(<<"4", "5">>, Z5, "N", <<"0", "0", "7">>, Z5, "E", "V",
               Alt120, Alt1000)
B_NonNum == BRec(<<"4", "X">>, Z5, "N", <<"0", "0", "7">>, Z5, "E", "A",
                 Alt120, Alt1000)
B_Signed == BRec(<<"+", "4">>, Z5, "N", <<"0", "_", "7">>, Z5, "E", "A",
                 AltNeg50, <<" ", " ", " ", "1", "2">>)
B_Short == SubSeq(B_Good, 1, 34)
B_Indented == <<" ">> \o B_SW \o <<" ", "\n">>

LineSet ==
    {L_PilotAl, L_PilotBo, L_PilotEmpty, L_DateOk, L_DateBad, L_DateColon,
     L_Other, B_Good, B_SW, B_Range, B_ZeroS, B_Void, B_NonNum, B_Signed,
     B_Short, B_Indented}

SeqsUpTo(S, n) == UNION {[1..k -> S] : k \in 0..n}

(***************************************************************************)
(* parse_igc as a state machine: one action per line of the file.          *)
(***************************************************************************)
ParseIdle ==
    /\ lines = <<>> /\ idx = 0 /\ pilot = None /\ date = None /\ points = <<>>

ParseInit ==
    /\ lines \in SeqsUpTo(LineSet, MaxLines)
    /\ idx = 0
    /\ pilot = None
    /\ date = None
    /\ points = <<>>

ParseLine ==
    /\ idx < Len(lines)
    /\ LET acc == ScanLine([pilot |-> pilot, date |-> date, points |-> points],
                           lines[idx + 1])
       IN  /\ pilot' = acc.pilot
           /\ date' = acc.date
           /\ points' = acc.points
    /\ idx' = idx + 1
    /\ UNCHANGED lines
    /\ UNCHANGED <<batchVars, mergeVars>>


(***************************************************************************)
(* generate_colors and rgb_hex_to_kml.  A colour is its three channel      *)
(* bytes, a KML colour the four bytes of AABBGGRR.                         *)
(***************************************************************************)
\* colorsys.hsv_to_rgb(i / n, 1.0, 1.0) with each channel cut to int(c * 255)
\* (lines 247-249); f is r / n in the sector 6i div n.
HueColor(i, n) ==
    LET sector == ((6 * i) \div n) % 6
        r == (6 * i) % n
        t == (255 * r) \div n
        q == (255 * (n - r)) \div n
    IN  CASE sector = 0 -> <<255, t, 0>>
          [] sector = 1 -> <<q, 255, 0>>
          [] sector = 2 -> <<0, 255, t>>
          [] sector = 3 -> <<0, q, 255>>
          [] sector = 4 -> <<t, 0, 255>>
          [] sector = 5 -> <<255, 0, q>>

generate_colors(n) == [i \in 1..n |-> HueColor(i - 1, n)]

rgb_hex_to_kml(hex_color) == <<255, hex_color[3], hex_color[2], hex_color[1]>>

(***************************************************************************)
(* build_kml and write_kmz.  An element is its tag, its xmlns attribute,   *)
(* the namespace a parser resolved its tag in, its id attribute, its text  *)
(* (a sequence of pieces) and its children.                                *)
(***************************************************************************)
KmlNs == "http://www.opengis.net/kml/2.2"

Elem(tag, id, text, kids) ==
    [tag |-> tag, xmlns |-> "", ns |-> "", id |-> id, text |-> text,
     kids |-> kids]

Leaf(tag, text) == Elem(tag, "", text, <<>>)

NoTree == Leaf("", <<>>)

Pad2(n) == IF n < 10 THEN "0" \o ToString(n) ELSE ToString(n)

\* strftime("%Y-%m-%d") of line 34
DateText(d) == <<ToString(d[1]), "-", Pad2(d[2]), "-", Pad2(d[3])>>

\* f"{lon},{lat},{alt}" of lines 108, 128, 138: longitude first
CoordText(p) == <<ToString(p[2]), ",", ToString(p[1]), ",", ToString(p[3])>>

RECURSIVE CoordsText(_)
CoordsText(ps) ==
    IF ps = <<>> THEN <<>>
    ELSE IF Len(ps) = 1 THEN CoordText(ps[1])
    ELSE CoordText(ps[1]) \o <<" ">> \o CoordsText(Tail(ps))

PointMark(label, p) ==
    Elem("Placemark", "", <<>>,
         <<Leaf("name", <<label>>),
           Leaf("styleUrl", <<"#", "pinStyle">>),
           Elem("Point", "", <<>>,
                <<Leaf("altitudeMode", <<"absolute">>),
                  Leaf("coordinates", CoordText(p))>>)>>)

build_kml(track_data, name, color_kml) ==
    LET parts ==
            (IF track_data.pilot # None
             THEN << <<"Pilot: ">> \o track_data.pilot >> ELSE <<>>)
            \o (IF track_data.date # None
                THEN << <<"Date: ">> \o DateText(track_data.date) >> ELSE <<>>)
        description ==
            IF parts = <<>> THEN <<>>
            ELSE IF Len(parts) = 1 THEN <<Leaf("description", parts[1])>>
            ELSE <<Leaf("description", parts[1] \o <<"\n">> \o parts[2])>>
        style ==
            Elem("Style", "trackStyle", <<>>,
                 <<Elem("LineStyle", "", <<>>,
                        <<Leaf("color", [i \in 1..4 |-> ToString(color_kml[i])]),
                          Leaf("width", <<"3">>)>>)>>)
        pin_style ==
            Elem("Style", "pinStyle", <<>>,
                 <<Elem("IconStyle", "", <<>>, <<Leaf("scale", <<"1.0">>)>>)>>)
        pts == track_data.points
        pm ==
            Elem("Placemark", "", <<>>,
                 <<Leaf("name", <<name>>),
                   Leaf("styleUrl", <<"#", "trackStyle">>),
                   Elem("LineString", "", <<>>,
                        <<Leaf("altitudeMode", <<"absolute">>),
                          Leaf("extrude", <<"0">>),
                          Leaf("tessellate", <<"1">>),
                          Leaf("coordinates", CoordsText(pts))>>)>>)
        takeoff == IF pts # <<>> THEN <<PointMark("Takeoff", pts[1])>> ELSE <<>>
        landing ==
            IF Len(pts) > 1 THEN <<PointMark("Landing", pts[Len(pts)])>>
            ELSE <<>>
        document ==
            Elem("Document", "", <<>>,
                 <<Leaf("name", <<name>>)>> \o description
                     \o <<style, pin_style, pm>> \o takeoff \o landing)
    IN  [Elem("kml", "", <<>>, <<document>>) EXCEPT !.xmlns = KmlNs]

\* What write_kmz leaves at output_path: an archive whose one entry doc.kml
\* is the XML declaration followed by the serialized tree (lines 145-149).
Kmz(kml_tree) == [kind |-> "kmz", entry |-> "doc.kml", xml |-> kml_tree]

Absent == [kind |-> "absent", entry |-> "", xml |-> NoTree]
Stale == [kind |-> "kmz", entry |-> "doc.kml", xml |-> Leaf("kml", <<"old">>)]
Partial == [kind |-> "partial", entry |-> "", xml |-> NoTree]


(***************************************************************************)
(* The input files of a batch and the disk the archives are written to.    *)
(***************************************************************************)
TwoFixBody == <<L_PilotAl, L_DateOk, B_Good, B_SW>>
NoFixBody == <<L_DateOk, B_Void, B_NonNum, B_Short>>

\* What a batch may find at an input path: a tracklog with fixes, one with
\* none, or a file that cannot be opened.
FileKinds ==
    {[readable |-> TRUE, body |-> TwoFixBody],
     [readable |-> TRUE, body |-> NoFixBody],
     [readable |-> FALSE, body |-> <<>>]}

IgcFile(dir, base, kind) ==
    [dir |-> dir, base |-> base, ext |-> ".igc", readable |-> kind.readable,
     body |-> kind.body]

NoFile == IgcFile("", "", [readable |-> FALSE, body |-> <<>>])

\* os.path.basename(igc_path)
Basename(f) == f.base \o f.ext

FlatDir == "in"
FlatBases == {"a", "b", "c"}
GroupDirs == {"", "north", "south"}
FolderBases == {"a", "b"}
FolderSlots == GroupDirs \X FolderBases

\* The order sorted() gives the names of the model.
NameRank(n) ==
    CASE n = "" -> 0 [] n = "(root)" -> 1 [] n = "a" -> 2 [] n = "b" -> 3
      [] n = "c" -> 4 [] n = "north" -> 5 [] n = "south" -> 6

RECURSIVE SortNames(_)
\* sorted(S), for a set S of names
SortNames(S) ==
    IF S = {} THEN <<>>
    ELSE LET m == CHOOSE x \in S : \A y \in S : NameRank(x) <= NameRank(y)
         IN  <<m>> \o SortNames(S \ {m})

\* output_root of line 258 and out_dir of line 304 (os.path.join)
OutputRoot == "flights_kmz"
OutDir(group_name) ==
    IF group_name # "" THEN OutputRoot \o "/" \o group_name ELSE OutputRoot

\* A path is its directory and its file name.
FlatOutPath(f) == <<f.dir, f.base \o ".kmz">>
FolderOutPath(f) == <<OutDir(f.dir), f.base \o ".kmz">>

AllOutPaths ==
    {<<FlatDir, b \o ".kmz">> : b \in FlatBases}
        \cup {<<OutDir(s[1]), s[2] \o ".kmz">> : s \in FolderSlots}

AllOutDirs == {OutputRoot} \cup {OutDir(g) : g \in GroupDirs}

(***************************************************************************)
(* convert_file, in the steps of its body.                                 *)
(***************************************************************************)
NoData == [pilot |-> None, date |-> None, points |-> <<>>]

CfIdle ==
    [state |-> "idle", igc |-> NoFile, color_kml |-> <<0, 0, 0, 0>>,
     output_path |-> <<"", "">>, name |-> "", data |-> NoData,
     kml_tree |-> NoTree, err |-> NoneStr]

\* The call convert_file(igc_path, color_kml, output_path) (lines 152-156).
CfStart(igc, color_kml, output_path) ==
    [CfIdle EXCEPT !.state = "Start", !.igc = igc, !.color_kml = color_kml,
                   !.output_path = output_path, !.name = igc.base]

MsgNoFixes == "No valid GPS fixes found"
MsgNoEntry == "[Errno 2] No such file or directory"
MsgDenied == "[Errno 13] Permission denied"
MsgNoSpace == "[Errno 28] No space left on device"

\* CF_Parse without the test "if not data['points']" of line 160.
CF_Parse_NoEmptyTest ==
    /\ cf.state = "Start"
    /\ IF ~cf.igc.readable
       THEN cf' = [cf EXCEPT !.state = "Failed", !.err = MsgDenied]
       ELSE cf' = [cf EXCEPT !.state = "Parsed",
                             !.data = parse_igc(cf.igc.body)]
    /\ UNCHANGED <<batchInput, loopVars, tallyVars, outdirs, disk>>
    /\ UNCHANGED <<parseVars, mergeVars>>

\* parse_igc and the test of its points (lines 159-161).
CF_Parse ==
    /\ cf.state = "Start"
    /\ IF ~cf.igc.readable
       THEN cf' = [cf EXCEPT !.state = "Failed", !.err = MsgDenied]
       ELSE LET data == parse_igc(cf.igc.body)
            IN  IF data.points = <<>>
                THEN cf' = [cf EXCEPT !.state = "Failed", !.err = MsgNoFixes]
                ELSE cf' = [cf EXCEPT !.state = "Parsed", !.data = data]
    /\ UNCHANGED <<batchInput, loopVars, tallyVars, outdirs, disk>>
    /\ UNCHANGED <<parseVars, mergeVars>>

\* build_kml (line 162).
CF_Build ==
    /\ cf.state = "Parsed"
    /\ cf' = [cf EXCEPT !.state = "Built",
                        !.kml_tree = build_kml(cf.data, cf.name, cf.color_kml)]
    /\ UNCHANGED <<batchInput, loopVars, tallyVars, outdirs, disk>>
    /\ UNCHANGED <<parseVars, mergeVars>>

\* write_kmz (lines 163, 165-166 and 143-149): the archive is written, or
\* ZipFile() raises before the file is touched, or the write raises after
\* ZipFile() has truncated it.
CF_Write ==
    /\ cf.state = "Built"
    /\ \/ /\ cf.output_path[1] \in outdirs
          /\ disk' = [disk EXCEPT ![cf.output_path] = Kmz(cf.kml_tree)]
          /\ cf' = [cf EXCEPT !.state = "Packaged"]
       \/ /\ cf.output_path[1] \notin outdirs
          /\ cf' = [cf EXCEPT !.state = "Failed", !.err = MsgNoEntry]
          /\ UNCHANGED disk
       \/ /\ cf.output_path[1] \in outdirs
          /\ cf' = [cf EXCEPT !.state = "Failed", !.err = MsgDenied]
          /\ UNCHANGED disk
       \/ /\ cf.output_path[1] \in outdirs
          /\ disk' = [disk EXCEPT ![cf.output_path] = Partial]
          /\ cf' = [cf EXCEPT !.state = "Failed", !.err = MsgNoSpace]
    /\ UNCHANGED <<batchInput, loopVars, tallyVars, outdirs>>
    /\ UNCHANGED <<parseVars, mergeVars>>

\* return output_path, None (line 164).
CF_Return ==
    /\ cf.state = "Packaged"
    /\ cf' = [cf EXCEPT !.state = "Done", !.err = NoneStr]
    /\ UNCHANGED <<batchInput, loopVars, tallyVars, outdirs, disk>>
    /\ UNCHANGED <<parseVars, mergeVars>>

\* Python's truth value of the err convert_file returned.
Truthy(err) == err # NoneStr /\ err # ""


(***************************************************************************)
(* The flat batch of main and the grouped batch of convert_folder.         *)
(***************************************************************************)
\* pick_color_macos's answer: the dialog's default colour {65535, 0, 0},
\* each channel // 256 (lines 190-199).
PickedColor == <<255, 0, 0>>

FileKey(f) == <<f.dir, f.base>>

NoReport == [title |-> "", success |-> 0, total |-> 0, errors |-> <<>>]

\* f"{os.path.basename(igc_path)}: {err}" (lines 314, 444)
ErrorEntry(f, err) == Basename(f) \o ": " \o err

FlatFileSet == {IgcFile(FlatDir, b, k) : b \in FlatBases, k \in FileKinds}

\* pick_files_macos's answer: a non-empty list of distinct paths.
FlatLists ==
    {fs \in SeqsUpTo(FlatFileSet, MaxFiles) :
        /\ Len(fs) >= 1
        /\ \A i, j \in 1..Len(fs) : i # j => fs[i].base # fs[j].base}

\* groups after the scan of lines 261-277: each subfolder that holds IGC
\* files, and "" for the files of the root, each list sorted.
GroupsOf(S, k) ==
    [g \in {s[1] : s \in S} |->
        LET bases == SortNames({s[2] : s \in {t \in S : t[1] = g}})
        IN  [i \in 1..Len(bases) |-> IgcFile(g, bases[i], k[<<g, bases[i]>>])]]

BatchIdle ==
    /\ mode = "" /\ files = <<>> /\ groups = <<>> /\ group_names = <<>>
    /\ color_map = <<>> /\ outdirs = {} /\ disk0 = <<>> /\ disk = <<>>
    /\ pc = "" /\ gi = 0 /\ fi = 0 /\ count = 0 /\ total = 0 /\ success = 0
    /\ errors = <<>> /\ cf = CfIdle /\ results = <<>> /\ attempts = <<>>
    /\ report = NoReport

BatchInit ==
    /\ mode \in {"files", "folder"}
    /\ IF mode = "files"
       THEN /\ files \in FlatLists
            /\ groups = <<>>
            /\ attempts = [x \in {FileKey(files[i]) : i \in 1..Len(files)} |-> 0]
            /\ pc = "main_loop"
       ELSE /\ files = <<>>
            /\ \E S \in {T \in SUBSET FolderSlots : Cardinality(T) <= MaxFiles} :
                 \E k \in [S -> FileKinds] :
                    /\ groups = GroupsOf(S, k)
                    /\ attempts = [x \in S |-> 0]
            /\ pc = "start"
    /\ \E stale \in BOOLEAN :
          /\ disk0 = [p \in AllOutPaths |-> IF stale THEN Stale ELSE Absent]
          /\ outdirs = {FlatDir} \cup (IF stale THEN AllOutDirs ELSE {})
    /\ disk = disk0
    /\ group_names = <<>>
    /\ color_map = <<>>
    /\ gi = 0 /\ fi = 0 /\ count = 0 /\ total = 0
    /\ success = 0 /\ errors = <<>>
    /\ cf = CfIdle
    /\ results = <<>>
    /\ report = NoReport

\* Tally with success counted for every file, failed or not.
Tally_CountsEveryFile(err, f) ==
    /\ errors' = (IF Truthy(err) THEN Append(errors, ErrorEntry(f, err))
                  ELSE errors)
    /\ success' = success + 1
    /\ results' = Append(results, [igc |-> FileKey(f), err |-> err])

\* The tally of one convert_file result (lines 313-318 and 443-448).
Tally(err, f) ==
    /\ IF Truthy(err)
       THEN /\ errors' = Append(errors, ErrorEntry(f, err))
            /\ success' = success
       ELSE /\ success' = success + 1
            /\ errors' = errors
    /\ results' = Append(results, [igc |-> FileKey(f), err |-> err])

\* main: for i, f in enumerate(files, 1): convert_file(f, color_kml).
MainCall ==
    /\ pc = "main_loop"
    /\ fi < Len(files)
    /\ LET f == files[fi + 1]
       IN  /\ cf' = CfStart(f, rgb_hex_to_kml(PickedColor), FlatOutPath(f))
           /\ attempts' = [attempts EXCEPT ![FileKey(f)] = @ + 1]
    /\ fi' = fi + 1
    /\ pc' = "main_call"
    /\ UNCHANGED <<batchInput, tallyVars, outdirs, disk, group_names,
                   color_map, gi, count, total>>
    /\ UNCHANGED <<parseVars, mergeVars>>

MainRecord ==
    /\ pc = "main_call"
    /\ cf.state \in {"Done", "Failed"}
    /\ Tally(cf.err, cf.igc)
    /\ cf' = CfIdle
    /\ pc' = "main_loop"
    /\ UNCHANGED <<batchInput, outdirs, disk, group_names, color_map, gi, fi,
                   count, total, attempts, report>>
    /\ UNCHANGED <<parseVars, mergeVars>>

MainSummary ==
    /\ pc = "main_loop"
    /\ fi = Len(files)
    /\ report' = [title |-> "Conversion Complete", success |-> success,
                  total |-> Len(files), errors |-> errors]
    /\ pc' = "done"
    /\ UNCHANGED <<batchInput, outdirs, disk, group_names, color_map, gi, fi,
                   count, total, attempts, success, errors, results, cf>>
    /\ UNCHANGED <<parseVars, mergeVars>>

RECURSIVE SumLens(_, _)
SumLens(g, names) ==
    IF names = <<>> THEN 0 ELSE Len(g[Head(names)]) + SumLens(g, Tail(names))

\* convert_folder, lines 279-286: no group, or one colour per sorted group.
FolderStart ==
    /\ pc = "start"
    /\ IF DOMAIN groups = {}
       THEN /\ report' = [NoReport EXCEPT !.title = "No Files Found"]
            /\ pc' = "done"
            /\ UNCHANGED <<group_names, color_map>>
       ELSE LET names == SortNames(DOMAIN groups)
                colors == generate_colors(Len(names))
            IN  /\ group_names' = names
                /\ color_map' =
                     [g \in DOMAIN groups |->
                        colors[CHOOSE i \in 1..Len(names) : names[i] = g]]
                /\ pc' = "mkroot"
                /\ UNCHANGED report
    /\ UNCHANGED <<batchInput, outdirs, disk, gi, fi, count, total, attempts,
                   success, errors, results, cf>>
    /\ UNCHANGED <<parseVars, mergeVars>>

\* os.makedirs(output_root, exist_ok=True), outside any try (line 289), then
\* the counters of lines 291-294.  The call can raise only where the
\* directory does not exist yet.
FolderMkRoot ==
    /\ pc = "mkroot"
    /\ \/ /\ outdirs' = outdirs \cup {OutputRoot}
          /\ total' = SumLens(groups, group_names)
          /\ pc' = "group"
       \/ /\ OutputRoot \notin outdirs
          /\ pc' = "crashed"
          /\ UNCHANGED <<outdirs, total>>
    /\ UNCHANGED <<batchInput, tallyVars, disk, group_names, color_map, gi, fi,
                   count, attempts, cf>>
    /\ UNCHANGED <<parseVars, mergeVars>>

\* The head of the loop over the groups (lines 296-305): os.makedirs(out_dir,
\* exist_ok=True), outside any try.
FolderGroup ==
    /\ pc = "group"
    /\ gi < Len(group_names)
    /\ LET out_dir == OutDir(group_names[gi + 1])
       IN  \/ /\ outdirs' = outdirs \cup {out_dir}
              /\ fi' = 0
              /\ pc' = "loop"
           \/ /\ out_dir \notin outdirs
              /\ pc' = "crashed"
              /\ UNCHANGED <<outdirs, fi>>
    /\ UNCHANGED <<batchInput, tallyVars, disk, group_names, color_map, gi,
                   count, total, attempts, cf>>
    /\ UNCHANGED <<parseVars, mergeVars>>

\* Lines 307-312: count += 1 and the call of convert_file.
FolderCall ==
    /\ pc = "loop"
    /\ LET group_name == group_names[gi + 1]
       IN  /\ fi < Len(groups[group_name])
           /\ LET f == groups[group_name][fi + 1]
              IN  /\ cf' = CfStart(f, rgb_hex_to_kml(color_map[group_name]),
                                   FolderOutPath(f))
                  /\ attempts' = [attempts EXCEPT ![FileKey(f)] = @ + 1]
    /\ count' = count + 1
    /\ fi' = fi + 1
    /\ pc' = "call"
    /\ UNCHANGED <<batchInput, tallyVars, outdirs, disk, group_names,
                   color_map, gi, total>>
    /\ UNCHANGED <<parseVars, mergeVars>>

FolderRecord ==
    /\ pc = "call"
    /\ cf.state \in {"Done", "Failed"}
    /\ Tally(cf.err, cf.igc)
    /\ cf' = CfIdle
    /\ pc' = "loop"
    /\ UNCHANGED <<batchInput, outdirs, disk, group_names, color_map, gi, fi,
                   count, total, attempts, report>>
    /\ UNCHANGED <<parseVars, mergeVars>>

\* The end of one group's files: on to the next group.
FolderNextGroup ==
    /\ pc = "loop"
    /\ fi = Len(groups[group_names[gi + 1]])
    /\ gi' = gi + 1
    /\ pc' = "group"
    /\ UNCHANGED <<batchInput, tallyVars, outdirs, disk, group_names,
                   color_map, fi, count, total, attempts, cf>>
    /\ UNCHANGED <<parseVars, mergeVars>>

\* The summary of lines 321-324.
FolderSummary ==
    /\ pc = "group"
    /\ gi = Len(group_names)
    /\ report' = [title |-> "Conversion Complete", success |-> success,
                  total |-> total, errors |-> errors]
    /\ pc' = "done"
    /\ UNCHANGED <<batchInput, outdirs, disk, group_names, color_map, gi, fi,
                   count, total, attempts, success, errors, results, cf>>
    /\ UNCHANGED <<parseVars, mergeVars>>

BatchNext ==
    \/ MainCall \/ MainRecord \/ MainSummary
    \/ FolderStart \/ FolderMkRoot \/ FolderGroup \/ FolderCall
    \/ FolderRecord \/ FolderNextGroup \/ FolderSummary
    \/ CF_Parse \/ CF_Build \/ CF_Write \/ CF_Return


(***************************************************************************)
(* merge_kmz_folder.                                                       *)
(***************************************************************************)
\* ET.parse of an entry: every tag is resolved in the namespace the nearest
\* xmlns attribute declares (ElementTree's "{ns}tag").
RECURSIVE Qualify(_, _)
Qualify(el, inherited) ==
    LET eff == IF el.xmlns # "" THEN el.xmlns ELSE inherited
    IN  [el EXCEPT !.ns = eff, !.xmlns = "",
                   !.kids = [i \in DOMAIN el.kids |-> Qualify(el.kids[i], eff)]]

\* zipfile.ZipFile(kmz_path).open("doc.kml") and ET.parse (lines 373-379):
\* whether the entry was read, and the root of its tree.
ReadKmz(content) ==
    IF content.kind = "kmz" /\ content.entry = "doc.kml"
    THEN [ok |-> TRUE, root |-> Qualify(content.xml, "")]
    ELSE [ok |-> FALSE, root |-> NoTree]

\* el.findall(tag) and el.find(tag) with tag in the namespace ns
FindAll(el, ns, tag) ==
    SelectSeq(el.kids, LAMBDA k : k.tag = tag /\ k.ns = ns)

Find(el, ns, tag) ==
    IF FindAll(el, ns, tag) = <<>> THEN NoTree ELSE FindAll(el, ns, tag)[1]

\* The Document of lines 383-385: the qualified one, else the unqualified.
FindDocument(inner_root) ==
    IF Find(inner_root, KmlNs, "Document") # NoTree
    THEN Find(inner_root, KmlNs, "Document")
    ELSE Find(inner_root, "", "Document")

RECURSIVE Join(_)
Join(pieces) == IF pieces = <<>> THEN "" ELSE Head(pieces) \o Join(Tail(pieces))

\* Lines 390-393: the Style children, each with its id prefixed.
MovedStyles(inner_doc, file_prefix) ==
    LET styles == FindAll(inner_doc, KmlNs, "Style")
    IN  [i \in 1..Len(styles) |->
            [styles[i] EXCEPT !.id = file_prefix \o styles[i].id]]

\* Lines 397-399: the styleUrl child of a Placemark rewritten.
RewriteUrl(pm, file_prefix) ==
    LET hit == {i \in 1..Len(pm.kids) :
                    pm.kids[i].tag = "styleUrl" /\ pm.kids[i].ns = KmlNs}
    IN  IF hit = {} THEN pm
        ELSE LET i == CHOOSE x \in hit : \A y \in hit : x <= y
                 text == pm.kids[i].text
             IN  IF text # <<>> /\ Head(text) = "#"
                 THEN [pm EXCEPT !.kids[i].text =
                                     <<"#", file_prefix \o Join(Tail(text))>>]
                 ELSE pm

\* MovedPlacemarks that leaves every styleUrl as it was.
MovedPlacemarks_UrlKept(inner_doc, file_prefix) ==
    FindAll(inner_doc, KmlNs, "Placemark")

\* Lines 396-400: the Placemark children, each with its styleUrl rewritten.
MovedPlacemarks(inner_doc, file_prefix) ==
    LET pms == FindAll(inner_doc, KmlNs, "Placemark")
    IN  [i \in 1..Len(pms) |-> RewriteUrl(pms[i], file_prefix)]

\* The archives a folder may hold: one written by this converter, a KML
\* without namespace, a foreign KML in the namespace, a KML without a
\* Document, and a file that is no archive.
ForeignPlain ==
    Elem("kml", "", <<>>,
         <<Elem("Document", "", <<>>,
                <<Elem("Style", "s", <<>>, <<>>),
                  Elem("Placemark", "", <<>>,
                       <<Leaf("styleUrl", <<"#", "s">>)>>)>>)>>)

ForeignQualified ==
    [Elem("kml", "", <<>>,
          <<Elem("Document", "", <<>>,
                 <<Elem("Style", "", <<>>, <<>>),
                   Elem("Placemark", "", <<>>,
                        <<Leaf("styleUrl", <<"styles.kml#s">>)>>),
                   Elem("Placemark", "", <<>>, <<Leaf("name", <<"p">>)>>),
                   Elem("Folder", "", <<>>, <<>>)>>)>>)
        EXCEPT !.xmlns = KmlNs]

NoDocument ==
    [Elem("kml", "", <<>>, <<Elem("Folder", "", <<>>, <<>>)>>)
        EXCEPT !.xmlns = KmlNs]

\* The archive convert_file writes for a tracklog named base.
Converted(base, body) ==
    Kmz(build_kml(parse_igc(body), base, rgb_hex_to_kml(PickedColor)))

ArchiveKinds == {"converted", "plain", "qualified", "no_document", "corrupt"}

ArchiveContent(base, kind) ==
    CASE kind = "converted" -> Converted(base, TwoFixBody)
      [] kind = "plain" -> Kmz(ForeignPlain)
      [] kind = "qualified" -> Kmz(ForeignQualified)
      [] kind = "no_document" -> Kmz(NoDocument)
      [] kind = "corrupt" -> Partial

KmzFile(dir, base, ext, kind) ==
    [dir |-> dir, base |-> base, ext |-> ext, kind |-> kind,
     content |-> ArchiveContent(base, kind)]

\* The places of archives: a.kmz and b.kmz at the root and in north, a.KMZ
\* beside them in north, and a.kmz in south.
MergeSlots ==
    ({"", "north"} \X {"a", "b"} \X {".kmz"})
        \cup {<<"north", "a", ".KMZ">>, <<"south", "a", ".kmz">>}

\* sorted() puts a.KMZ before a.kmz before b.kmz
FileRank(t) == 2 * NameRank(t[2]) + (IF t[3] = ".KMZ" THEN 0 ELSE 1)

RECURSIVE SortSlots(_)
SortSlots(S) ==
    IF S = {} THEN <<>>
    ELSE LET m == CHOOSE x \in S : \A y \in S : FileRank(x) <= FileRank(y)
         IN  <<m>> \o SortSlots(S \ {m})

\* groups after the scan of lines 336-352: each subfolder that holds
\* archives, and "(root)" for the archives of the root, each list sorted.
MergeGroupsOf(S, k) ==
    [g \in {IF s[1] = "" THEN "(root)" ELSE s[1] : s \in S} |->
        LET dir == IF g = "(root)" THEN "" ELSE g
            here == SortSlots({t \in S : t[1] = dir})
        IN  [i \in 1..Len(here) |->
                KmzFile(dir, here[i][2], here[i][3], k[here[i]])]]

ArchiveKey(a) == <<a.dir, a.base \o a.ext>>

MergeFolderName == "flights"

NoMergeReport == [title |-> "", total |-> 0]

MergeIdle ==
    /\ mgroups = <<>> /\ mpc = "" /\ mgi = 0 /\ mki = 0 /\ doc = NoTree
    /\ prov = <<>> /\ total_files = 0 /\ merged_out = Absent
    /\ mreport = NoMergeReport

MergeInit ==
    /\ \E S \in {T \in SUBSET MergeSlots : Cardinality(T) <= MaxArchives} :
          \E k \in [S -> ArchiveKinds] : mgroups = MergeGroupsOf(S, k)
    /\ mpc = "start"
    /\ mgi = 0 /\ mki = 0
    /\ doc = NoTree
    /\ prov = <<>>
    /\ total_files = 0
    /\ merged_out = Absent
    /\ mreport = NoMergeReport

\* Lines 354-363: no group, or the combined document with its name.
MergeStart ==
    /\ mpc = "start"
    /\ IF DOMAIN mgroups = {}
       THEN /\ mreport' = [NoMergeReport EXCEPT !.title = "No Files Found"]
            /\ mpc' = "done"
            /\ UNCHANGED doc
       ELSE /\ doc' = Elem("Document", "", <<>>,
                           <<Leaf("name", <<MergeFolderName>>)>>)
            /\ mpc' = "group"
            /\ UNCHANGED mreport
    /\ UNCHANGED <<mgroups, mgi, mki, prov, total_files, merged_out>>
    /\ UNCHANGED <<parseVars, batchVars>>

\* Lines 364-366: the Folder of the next group, in sorted order.
MergeGroup ==
    /\ mpc = "group"
    /\ LET names == SortNames(DOMAIN mgroups)
       IN  /\ mgi < Len(names)
           /\ doc' = [doc EXCEPT !.kids =
                        Append(@, Elem("Folder", "", <<>>,
                                       <<Leaf("name", <<names[mgi + 1]>>)>>))]
    /\ prov' = Append(prov, <<>>)
    /\ mki' = 0
    /\ mpc' = "archive"
    /\ UNCHANGED <<mgroups, mgi, total_files, merged_out, mreport>>
    /\ UNCHANGED <<parseVars, batchVars>>

\* Lines 368-400: one archive of the group.  folder_el is the last child of
\* doc; prov records, beside each element moved into it, the archive the
\* element came from.
MergeArchive ==
    /\ mpc = "archive"
    /\ LET group_name == SortNames(DOMAIN mgroups)[mgi + 1]
       IN  /\ mki < Len(mgroups[group_name])
           /\ LET kmz == mgroups[group_name][mki + 1]
                  file_prefix == kmz.base \o "_"
                  read == ReadKmz(kmz.content)
                  inner_doc == FindDocument(read.root)
                  moved == MovedStyles(inner_doc, file_prefix)
                              \o MovedPlacemarks(inner_doc, file_prefix)
                  f == Len(doc.kids)
              IN  IF ~read.ok \/ inner_doc = NoTree
                  THEN UNCHANGED <<doc, prov>>
                  ELSE /\ doc' = [doc EXCEPT !.kids[f].kids = @ \o moved]
                       /\ prov' = [prov EXCEPT ![Len(prov)] =
                                      @ \o [i \in 1..Len(moved) |->
                                                ArchiveKey(kmz)]]
    /\ total_files' = total_files + 1
    /\ mki' = mki + 1
    /\ UNCHANGED <<mgroups, mpc, mgi, merged_out, mreport>>
    /\ UNCHANGED <<parseVars, batchVars>>

\* The end of one group's archives: on to the next group.
MergeNextGroup ==
    /\ mpc = "archive"
    /\ mki = Len(mgroups[SortNames(DOMAIN mgroups)[mgi + 1]])
    /\ mgi' = mgi + 1
    /\ mpc' = "group"
    /\ UNCHANGED <<mgroups, mki, doc, prov, total_files, merged_out, mreport>>
    /\ UNCHANGED <<parseVars, batchVars>>

\* Lines 402-408: the combined archive is written, outside any try, and
\* the number of files is reported.
MergeWrite ==
    /\ mpc = "group"
    /\ mgi = Len(SortNames(DOMAIN mgroups))
    /\ \/ /\ merged_out' =
                Kmz([Elem("kml", "", <<>>, <<doc>>) EXCEPT !.xmlns = KmlNs])
          /\ mreport' = [title |-> "Merge Complete", total |-> total_files]
          /\ mpc' = "done"
       \/ /\ mpc' = "crashed"
          /\ UNCHANGED <<merged_out, mreport>>
    /\ UNCHANGED <<mgroups, mgi, mki, doc, prov, total_files>>
    /\ UNCHANGED <<parseVars, batchVars>>

MergeNext ==
    \/ MergeStart \/ MergeGroup \/ MergeArchive \/ MergeNextGroup
    \/ MergeWrite

(***************************************************************************)
(* Specifications.                                                         *)
(***************************************************************************)
ParseNext == ParseLine

InitParse == ParseInit /\ BatchIdle /\ MergeIdle

SpecParse == InitParse /\ [][ParseNext]_vars

InitBatch == BatchInit /\ ParseIdle /\ MergeIdle

SpecBatch == InitBatch /\ [][BatchNext]_vars

InitMerge == MergeInit /\ ParseIdle /\ BatchIdle

SpecMerge == InitMerge /\ [][MergeNext]_vars


(***************************************************************************)
(* Properties of parse_igc (SpecParse).                                    *)
(***************************************************************************)
\* The stripped lines scanned so far.
Scanned == [i \in 1..idx |-> Strip(lines[i])]

C6_HasPilotName(line) ==
    /\ StartsWith(line, <<"H">>)
    /\ Contains(Upper(line), <<"P", "L", "T">>)
    /\ Contains(line, <<":">>)
    /\ Strip(AfterFirst(line, ":")) # <<>>

C6_DateDigits(line) == SelectSeq(Slice(line, 5, Len(line)), IsDigit)

C6_HasValidDate(line) ==
    /\ StartsWith(line, <<"H">>)
    /\ \/ StartsWith(Upper(line), <<"H", "F", "D", "T", "E">>)
       \/ StartsWith(Upper(line), <<"H", "P", "D", "T", "E">>)
    /\ Len(C6_DateDigits(line)) >= 6
    /\ StrpDate(SubSeq(C6_DateDigits(line), 1, 6)) # None

Last(S) == CHOOSE i \in S : \A j \in S : j <= i

\* C6: after any sequence of lines the pilot is the trimmed name of the last
\* pilot header whose name is not empty (absent only if there is none; a
\* later pilot header with an empty name does not erase it), and the date is
\* the last validly decoded HFDTE/HPDTE date.
C6_LatestPilotAndDate ==
    LET named == {i \in 1..idx : C6_HasPilotName(Scanned[i])}
        dated == {i \in 1..idx : C6_HasValidDate(Scanned[i])}
    IN  /\ pilot = (IF named = {} THEN None
                    ELSE Strip(AfterFirst(Scanned[Last(named)], ":")))
        /\ date = (IF dated = {} THEN None
                   ELSE StrpDate(SubSeq(C6_DateDigits(Scanned[Last(dated)]),
                                        1, 6)))

\* A field that reads as an integer: an optional sign, then digits, with
\* blanks around and single underscores between digits tolerated.
C7_Numeric(field) ==
    LET t == Strip(field)
        b == IF t # <<>> /\ Head(t) \in {"+", "-"} THEN Tail(t) ELSE t
    IN  /\ b # <<>>
        /\ \A i \in 1..Len(b) :
              \/ b[i] \in Digits
              \/ /\ b[i] = "_" /\ 1 < i /\ i < Len(b)
                 /\ b[i - 1] \in Digits /\ b[i + 1] \in Digits

C7_IsFixLine(line) ==
    /\ StartsWith(line, <<"B">>)
    /\ Len(line) >= 35
    /\ line[25] = "A"
    /\ \A r \in {<<7, 9>>, <<9, 14>>, <<15, 18>>, <<18, 23>>, <<25, 30>>,
                 <<30, 35>>} : C7_Numeric(Slice(line, r[1], r[2]))

C7_FixOf(line) ==
    LET lat == IntOf(Slice(line, 7, 9)) * 60000 + IntOf(Slice(line, 9, 14))
        lon == IntOf(Slice(line, 15, 18)) * 60000 + IntOf(Slice(line, 18, 23))
        gps == IntOf(Slice(line, 30, 35))
    IN  <<IF line[15] = "S" THEN 0 - lat ELSE lat,
          IF line[24] = "W" THEN 0 - lon ELSE lon,
          IF gps > 0 THEN gps ELSE IntOf(Slice(line, 25, 30))>>

RECURSIVE C7_FixesOfLines(_)
C7_FixesOfLines(ls) ==
    IF ls = <<>> THEN <<>>
    ELSE (IF C7_IsFixLine(Head(ls)) THEN <<C7_FixOf(Head(ls))>> ELSE <<>>)
            \o C7_FixesOfLines(Tail(ls))

AllDigits(field) == \A i \in 1..Len(field) : field[i] \in Digits

C8_WellFormed(line) ==
    /\ StartsWith(line, <<"B">>)
    /\ Len(line) >= 35
    /\ line[25] = "A"
    /\ AllDigits(Slice(line, 7, 9)) /\ AllDigits(Slice(line, 9, 14))
    /\ AllDigits(Slice(line, 15, 18)) /\ AllDigits(Slice(line, 18, 23))
    /\ C7_Numeric(Slice(line, 25, 30)) /\ C7_Numeric(Slice(line, 30, 35))

\* C8: the fix decoded from a well-formed B record with validity A has its
\* latitude within [-90, 90] and its longitude within [-180, 180] (in
\* thousandths of a minute), S giving a latitude and W a longitude that is
\* not positive, any other letter one that is not negative.
C8_FixInRangeAndSigned ==
    (idx > 0 /\ C8_WellFormed(Scanned[idx])) =>
        /\ points # <<>>
        /\ LET p == points[Len(points)]
               line == Scanned[idx]
           IN  /\ p[1] >= 0 - 90 * 60000 /\ p[1] <= 90 * 60000
               /\ p[2] >= 0 - 180 * 60000 /\ p[2] <= 180 * 60000
               /\ IF line[15] = "S" THEN p[1] <= 0 ELSE p[1] >= 0
               /\ IF line[24] = "W" THEN p[2] <= 0 ELSE p[2] >= 0

(***************************************************************************)
(* Properties of the batches and of convert_file (SpecBatch).              *)
(***************************************************************************)
RECURSIVE FilesInOrder(_, _)
FilesInOrder(g, names) ==
    IF names = <<>> THEN <<>>
    ELSE g[Head(names)] \o FilesInOrder(g, Tail(names))

\* The input files of the run, in the order the batch is to take them.
InputOrder ==
    IF mode = "files" THEN files
    ELSE FilesInOrder(groups, SortNames(DOMAIN groups))

OutPathOf(f) == IF mode = "files" THEN FlatOutPath(f) ELSE FolderOutPath(f)

HasFixes(f) == f.readable /\ parse_igc(f.body).points # <<>>

RECURSIVE C1_Entries(_, _)
C1_Entries(rs, order) ==
    IF rs = <<>> THEN <<>>
    ELSE (IF Head(rs).err # NoneStr
          THEN <<Head(order).base \o ".igc" \o ": " \o Head(rs).err>>
          ELSE <<>>) \o C1_Entries(Tail(rs), Tail(order))

\* What is recorded for a file rests on that file alone: a file without
\* fixes or that cannot be read is an error; a file with fixes is a success
\* exactly if its own archive was written.
C1_OwnOutcome(f, err) ==
    /\ ~f.readable => err = MsgDenied
    /\ (f.readable /\ ~HasFixes(f)) => err = MsgNoFixes
    /\ HasFixes(f) =>
          (err = NoneStr <=> /\ disk[OutPathOf(f)].kind = "kmz"
                             /\ disk[OutPathOf(f)] # Stale)

\* C1: in a batch over N files every file is attempted once, in order; each
\* attempt adds 1 to success or one "<filename>: <message>" entry to errors,
\* never both and never neither; what is recorded for a file does not depend
\* on the other files; at the summary success + number of errors = N.
C1_OneTallyPerFile ==
    LET order == InputOrder
    IN  /\ Len(results) <= Len(order)
        /\ success + Len(errors) = Len(results)
        /\ errors = C1_Entries(results, order)
        /\ \A i \in 1..Len(results) :
              /\ results[i].igc = FileKey(order[i])
              /\ C1_OwnOutcome(order[i], results[i].err)
        /\ \A k \in DOMAIN attempts : attempts[k] <= 1
        /\ (pc = "done" /\ report.title = "Conversion Complete") =>
              /\ Len(results) = Len(order)
              /\ \A k \in DOMAIN attempts : attempts[k] = 1
              /\ report.success + Len(report.errors) = Len(order)
              /\ report.success = success /\ report.errors = errors

\* A grouped batch of three files has ended with its summary: the first and
\* the last file failed, the one between them succeeded.
C1_Witness ==
    /\ mode = "folder"
    /\ pc = "done"
    /\ Len(results) = 3
    /\ results[1].err = MsgNoFixes
    /\ results[2].err = NoneStr
    /\ results[3].err # NoneStr
    /\ report.success = 1

C2_Edges ==
    {<<"idle", "Start">>, <<"Start", "Parsed">>, <<"Parsed", "Built">>,
     <<"Built", "Packaged">>, <<"Packaged", "Done">>, <<"Start", "Failed">>,
     <<"Parsed", "Failed">>, <<"Built", "Failed">>, <<"Done", "idle">>,
     <<"Failed", "idle">>}

C2_Step ==
    /\ cf'.state # cf.state => <<cf.state, cf'.state>> \in C2_Edges
    /\ disk' # disk =>
          /\ cf.state = "Built"
          /\ cf.data = parse_igc(cf.igc.body)
          /\ cf.data.points # <<>>
          /\ cf.kml_tree = build_kml(cf.data, cf.name, cf.color_kml)
          /\ \A p \in DOMAIN disk : p # cf.output_path => disk'[p] = disk[p]
    /\ (cf.state = "Start" /\ cf.igc.readable /\ ~HasFixes(cf.igc)
        /\ cf' # cf) =>
          /\ cf'.state = "Failed"
          /\ Truthy(cf'.err)
          /\ disk' = disk

C2_NoFixNoOutput ==
    \A i \in 1..Len(InputOrder) :
        LET f == InputOrder[i]
        IN  (f.readable /\ ~HasFixes(f)) =>
                disk[OutPathOf(f)] = disk0[OutPathOf(f)]

\* C2: convert_file moves Start -> Parsed -> Built -> Packaged -> Done, or to
\* Failed; the archive is written only from Built, after parsing gave at
\* least one fix; a file with no fix ends in Failed with an error value and
\* the file at its output path is neither created nor modified.
C2_ConvertFileStateMachine == [][C2_Step]_vars /\ []C2_NoFixNoOutput

\* After a file was converted, a file with no fix has failed, and an archive
\* of an earlier run lies at its output path.
C2_Witness ==
    /\ cf.state = "Failed"
    /\ cf.err = MsgNoFixes
    /\ disk0[cf.output_path] = Stale
    /\ success >= 1

\* C3: in a grouped batch an I/O error while creating the output root or a
\* group's output directory, or while writing an archive, is recorded for
\* that item only: the other files are still converted and the run ends
\* with its summary.
C3_IoErrorStaysWithItsItem ==
    (mode = "folder" /\ DOMAIN groups # {} /\ pc \in {"done", "crashed"}) =>
        /\ pc = "done"
        /\ report.title = "Conversion Complete"
        /\ Len(results) = Len(InputOrder)
        /\ report.success + Len(report.errors) = Len(InputOrder)


(***************************************************************************)
(* Properties of merge_kmz_folder (SpecMerge).                             *)
(***************************************************************************)
Archives == UNION {{mgroups[g][i] : i \in 1..Len(mgroups[g])} : g \in DOMAIN mgroups}

ArchiveAt(key) == CHOOSE a \in Archives : ArchiveKey(a) = key

GroupOfFolder(g) == mgroups[SortNames(DOMAIN mgroups)[g]]

\* The elements moved into the g-th Folder (its children after its name).
MovedInto(g) == Tail(doc.kids[g + 1].kids)

\* The Document of an archive, where the archive can be read and has one.
Located(a) == ReadKmz(a.content).ok /\ FindDocument(ReadKmz(a.content).root) # NoTree

DocumentOf(a) == FindDocument(ReadKmz(a.content).root)

UrlOf(pm) ==
    LET u == SelectSeq(pm.kids, LAMBDA k : k.tag = "styleUrl")
    IN  IF u = <<>> THEN <<>> ELSE u[1].text

\* C4: the count of the final report is the number of archives whose
\* Document was located and whose content was moved into the combined
\* document; an archive that was skipped is not counted.
C4_ReportCountsMergedArchives ==
    (mpc = "done" /\ mreport.title = "Merge Complete") =>
        mreport.total = Cardinality({a \in Archives : Located(a)})

\* Every archive of the g-th group is one this converter wrote, under the
\* name it gives its archives.
C5_ByConverter(g) ==
    \A i \in 1..Len(GroupOfFolder(g)) :
        /\ GroupOfFolder(g)[i].kind = "converted"
        /\ GroupOfFolder(g)[i].ext = ".kmz"

\* C5: where the archives of a group were produced by this converter, every
\* Style of the group's Folder has the id "<archive-basename>_<original-id>",
\* and every Placemark whose styleUrl began with # has the styleUrl
\* "#<archive-basename>_<original-id>", which names a Style of the same
\* Folder that came from the Placemark's own archive, and none from another.
C5_StyleUrlsFollowTheirStyles ==
    \A g \in 1..Len(prov) :
        C5_ByConverter(g) =>
            \A k \in 1..Len(prov[g]) :
                LET el == MovedInto(g)[k]
                    src == ArchiveAt(prov[g][k])
                    orig == DocumentOf(src)
                IN  /\ el.tag = "Style" =>
                          \E o \in {"trackStyle", "pinStyle"} :
                              /\ el.id = src.base \o "_" \o o
                              /\ \E j \in 1..Len(orig.kids) :
                                    /\ orig.kids[j].tag = "Style"
                                    /\ orig.kids[j].id = o
                    /\ el.tag = "Placemark" =>
                          \E j \in 1..Len(orig.kids) :
                              LET was == UrlOf(orig.kids[j])
                                  now == UrlOf(el)
                              IN  /\ orig.kids[j].tag = "Placemark"
                                  /\ was # <<>> /\ Head(was) = "#"
                                  /\ el = RewriteUrl(orig.kids[j], src.base \o "_")
                                  /\ now = <<"#", src.base \o "_" \o Join(Tail(was))>>
                                  /\ \E m \in 1..Len(prov[g]) :
                                        /\ MovedInto(g)[m].tag = "Style"
                                        /\ MovedInto(g)[m].id = now[2]
                                        /\ prov[g][m] = prov[g][k]
                                  /\ \A m \in 1..Len(prov[g]) :
                                        (/\ MovedInto(g)[m].tag = "Style"
                                         /\ MovedInto(g)[m].id = now[2])
                                            => prov[g][m] = prov[g][k]

\* The archives a.kmz and b.kmz of one group, both written by this
\* converter, have been merged into one Folder, and a third, a.kmz of
\* another group, into another.
C5_Witness ==
    /\ mpc = "done"
    /\ Len(prov) = 2
    /\ C5_ByConverter(1) /\ C5_ByConverter(2)
    /\ \E g \in 1..2 : Len(prov[g]) = 10
    /\ \E g \in 1..2 : Len(prov[g]) = 5

\* C9: for every archive whose Document was located, by the qualified
\* lookup or by the unqualified fallback, every Style child and every
\* Placemark child of that Document has been moved into the group's Folder;
\* an archive found by the fallback does not contribute an empty result.
C9_LocatedDocumentsAreMoved ==
    mpc = "done" =>
        \A g \in 1..Len(prov) :
            \A i \in 1..Len(GroupOfFolder(g)) :
                LET a == GroupOfFolder(g)[i]
                    children == SelectSeq(DocumentOf(a).kids,
                                    LAMBDA k : k.tag \in {"Style", "Placemark"})
                    moved == {k \in 1..Len(prov[g]) : prov[g][k] = ArchiveKey(a)}
                IN  Located(a) => Cardinality(moved) = Len(children)

\* C10: in the combined document all Style ids are pairwise distinct, for
\* every layout of the source folder, archives of the same basename in
\* different groups included.
C10_StyleIdsDistinct ==
    \A g, h \in 1..Len(prov) :
        \A k \in 1..Len(prov[g]) :
            \A m \in 1..Len(prov[h]) :
                (/\ <<g, k>> # <<h, m>>
                 /\ MovedInto(g)[k].tag = "Style"
                 /\ MovedInto(h)[m].tag = "Style")
                    => MovedInto(g)[k].id # MovedInto(h)[m].id

=============================================================================
